---- MODULE Spec2Model ----
(***************************************************************************)
(* The routing-and-bookkeeping engine of the multi-agent AWS operations    *)
(* assistant: the intent classifier with its clarification state, the      *)
(* orchestrator that dispatches to the handlers, and the fix ledger of     *)
(* BaseAgent.                                                              *)
(*                                                                         *)
(* Python str values that the code searches, splits, strips or             *)
(* concatenates are sequences of one-character strings.  Names that the    *)
(* code only compares (session ids, agent names, categories, confidence    *)
(* levels) are TLA+ strings.                                               *)
(***************************************************************************)
EXTENDS Integers, Sequences, FiniteSets, TLC

VARIABLES
    conversations,          \* IntentClassifier.conversations: session_id -> list of ConversationTurn
    pending_clarifications, \* IntentClassifier.pending_clarifications, as the set of its (key, value) items
    fixes_applied,          \* BaseAgent.fixes_applied of each agent: a reference to a list object
    heap,                   \* the list objects: reference -> list of FixAction
    now,                    \* number of calls made so far; datetime.now() reads it
    last,                   \* the last call made and what it returned or raised
    answered,               \* per session: how its latest orchestrate_conversation call ended
    n_resolved,             \* per session: orchestrate_conversation calls whose classification was resolved
    n_completed,            \* per session: orchestrate_conversation calls that returned a completed turn
    threads,                \* per thread of the host: where it stands in the call it runs, and its locals
    jwt_token               \* BaseAgent.jwt_token of each agent that searches the gateway

vars == <<conversations, pending_clarifications, fixes_applied, heap, now, last,
          answered, n_resolved, n_completed, threads, jwt_token>>

----------------------------------------------------------------------------
(* Bounds *)

\* orchestrate_conversation calls made in one behaviour
MaxOps == 2

\* ledger calls made in one behaviour of the ledger alone
MaxLedgerOps == 4

Sessions == {"A", "B"}

\* calls that two threads of the host make on one agent in one behaviour
MaxHandlerOps == 6

\* classify_with_context and add_conversation_turn calls made in one behaviour of
\* the classifier alone
MaxClassifierOps == 2

\* invocations of the entry point in one behaviour
MaxInvokes == 2

\* statements that two threads of the host run inside classify_with_context in one
\* behaviour
MaxRaceOps == 6

\* tool_search calls made in one behaviour of the search alone
MaxSearchOps == 2

\* validate_fixes calls made in one behaviour of the validation handler alone
MaxValidateOps == 2

Threads == {"t1", "t2"}

----------------------------------------------------------------------------
(* Python str operations *)

\* the value of a one-element set: The({F(x) : x \in {e}}) is F(e), with e evaluated once
The(S) == CHOOSE x \in S : TRUE

Max(a, b) == IF a > b THEN a ELSE b
Min(a, b) == IF a < b THEN a ELSE b

\* str.lower() on the letters the texts below use
ToLower ==
    ("L" :> "l") @@ ("S" :> "s") @@ ("M" :> "m") @@ ("N" :> "n") @@ ("A" :> "a")
    @@ ("T" :> "t") @@ ("W" :> "w") @@ ("H" :> "h")

Lower(s) == [i \in 1..Len(s) |-> IF s[i] \in DOMAIN ToLower THEN ToLower[s[i]] ELSE s[i]]

\* sub in s
Contains(s, sub) ==
    \/ sub = <<>>
    \/ \E i \in 1..(Len(s) - Len(sub) + 1) :
          s[i] = sub[1] /\ SubSeq(s, i, i + Len(sub) - 1) = sub

\* any(k in s.lower() for k in keywords)
AnyInLower(keywords, s) ==
    \E low \in {Lower(s)} : \E k \in keywords : Contains(low, k)

IsSpace(c) == c = " "

\* len(s.split()): the number of maximal runs of non-whitespace characters
WordCount(s) ==
    Cardinality({i \in 1..Len(s) : ~IsSpace(s[i]) /\ (i = 1 \/ IsSpace(s[i - 1]))})

\* s.strip()
Strip(s) ==
    IF \A i \in 1..Len(s) : IsSpace(s[i]) THEN <<>>
    ELSE SubSeq(s, CHOOSE i \in 1..Len(s) : ~IsSpace(s[i]) /\ \A j \in 1..(i - 1) : IsSpace(s[j]),
                   CHOOSE i \in 1..Len(s) : ~IsSpace(s[i]) /\ \A j \in (i + 1)..Len(s) : IsSpace(s[j]))

\* s[start:end] with Python's treatment of negative and out-of-range indices
PySlice(s, start, end) ==
    LET n == Len(s)
        lo == IF start < 0 THEN Max(n + start, 0) ELSE Min(start, n)
        hi == IF end < 0 THEN Max(n + end, 0) ELSE Min(end, n)
    IN  SubSeq(s, lo + 1, hi)

\* s.find(x) and s.rfind(x) for a single element x: 0-based index, -1 when absent
Find(s, x) ==
    IF \E i \in 1..Len(s) : s[i] = x
    THEN (CHOOSE i \in 1..Len(s) : s[i] = x /\ \A j \in 1..(i - 1) : s[j] # x) - 1
    ELSE -1

RFind(s, x) ==
    IF \E i \in 1..Len(s) : s[i] = x
    THEN (CHOOSE i \in 1..Len(s) : s[i] = x /\ \A j \in (i + 1)..Len(s) : s[j] # x) - 1
    ELSE -1

DigitChar == <<"0", "1", "2", "3", "4", "5", "6", "7", "8", "9">>

RECURSIVE Decimal(_)
Decimal(n) == IF n < 10 THEN <<DigitChar[n + 1]>> ELSE Decimal(n \div 10) \o <<DigitChar[(n % 10) + 1]>>

\* datetime.isoformat() of the instant n: a non-empty text that grows with n
IsoFormat(n) == <<"T">> \o Decimal(n)

\* dict.get(key, default) on a record
Get(d, key, default) == IF key \in DOMAIN d THEN d[key] ELSE default

----------------------------------------------------------------------------
(* Outcome of a call: a returned value or a raised exception with its str() *)

Return(v) == [ok |-> TRUE, val |-> v]
Raise(m) == [ok |-> FALSE, exc |-> m]

None == [none |-> TRUE]

\* an input of a call that the call never reads
NotCalled == [unused |-> TRUE]

MsgIndexError ==
    <<"l","i","s","t"," ","i","n","d","e","x"," ","o","u","t"," ","o","f"," ","r","a","n","g","e">>
MsgKeyErrorText ==
    <<"'","t","e","x","t","'">>
\* str(KeyError(session_id))
MsgKeyErrorSession(session_id) == <<"'", session_id, "'">>

MsgKeyErrorCategory ==
    <<"'","i","n","t","e","n","t","_","c","a","t","e","g","o","r","y","'">>
MsgMissingIntent ==
    <<"p","r","o","v","i","d","e","_","d","o","c","u","m","e","n","t","a","t","i","o","n","(",")"," ","m","i","s","s","i","n","g"," ","1"," ","r","e","q","u","i","r","e","d"," ","p","o","s","i","t","i","o","n","a","l"," ","a","r","g","u","m","e","n","t",":"," ","'","i","n","t","e","n","t","'">>
MsgModelError ==
    <<"t","h","r","o","t","t","l","e","d">>

\* result.message['content'][0]['text'] of an AgentResult
MessageText(result) ==
    IF Len(result.content) = 0 THEN Raise(MsgIndexError)
    ELSE IF "text" \notin DOMAIN result.content[1] THEN Raise(MsgKeyErrorText)
    ELSE Return(result.content[1].text)

\* an AgentResult whose first content block is the text t, and one whose first
\* block carries no text
TextResult(t) == [content |-> <<[text |-> t]>>]
ToolUseResult == [content |-> <<[toolUse |-> "call"]>>]
EmptyResult == [content |-> <<>>]

----------------------------------------------------------------------------
(* Requests *)

ReqHelp ==
    <<"h","e","l","p">>
ReqList ==
    <<"L","i","s","t"," ","a","l","l"," ","S","3"," ","b","u","c","k","e","t","s">>
ReqWhy ==
    <<"w","h","y"," ","i","s"," ","l","a","m","b","d","a"," ","f","a","i","l","i","n","g">>

Requests == {ReqHelp, ReqList, ReqWhy}

----------------------------------------------------------------------------
(* A Python dict as the set of its (key, value) items *)

HasKey(d, k) == \E p \in d : p[1] = k
Lookup(d, k) == (CHOOSE p \in d : p[1] = k)[2]
DictDel(d, k) == {p \in d : p[1] # k}
\* d[k] = v replaces the item of k
DictSet(d, k, v) == DictDel(d, k) \cup {<<k, v>>}

----------------------------------------------------------------------------
(* The model's reply to the classification prompt.  Its text is a sequence  *)
(* of tokens: the braces that find('{') and rfind('}') look for, prose, and *)
(* the members of a JSON object.                                            *)

LBrace == [t |-> "{"]
RBrace == [t |-> "}"]
Prose == [t |-> "prose"]
Members(o) == [t |-> "members", obj |-> o]

Classification(category, confidence) ==
    [intent_category |-> category, aws_service |-> "s3",
     confidence |-> confidence, reasoning |-> "because"]

\* a JSON object that lacks the intent_category key
NoCategory == [aws_service |-> "s3", confidence |-> "high", reasoning |-> "because"]

Classifications ==
    {Classification("TROUBLESHOOTING", "high"), Classification("EXECUTION", "low"),
     Classification("DOCUMENTATION", "medium"), NoCategory}

ClassifierReplies ==
    {Raise(MsgModelError), Return(ToolUseResult)}
    \cup {Return(TextResult(<<LBrace, Members(c), RBrace>>)) : c \in Classifications}
    \cup {Return(TextResult(<<Prose, LBrace, Members(Classification("EXECUTION", "high")),
                              RBrace, Prose>>)),
          Return(TextResult(<<RBrace, Prose, LBrace>>))}

\* json.loads: the text is one JSON object, or JSONDecodeError
JsonLoads(toks) ==
    IF Len(toks) = 3 /\ toks[1].t = "{" /\ toks[2].t = "members" /\ toks[3].t = "}"
    THEN Return(toks[2].obj)
    ELSE Raise(<<>>)

FallbackKeywords ==
    {<<"f","a","i","l">>,
     <<"e","r","r","o","r">>,
     <<"i","s","s","u","e">>,
     <<"p","r","o","b","l","e","m">>,
     <<"w","h","y">>,
     <<"d","e","b","u","g">>,
     <<"t","r","o","u","b","l","e","s","h","o","o","t">>}

AmbiguousKeywords ==
    {<<"h","e","l","p">>,
     <<"m","a","y","b","e">>,
     <<"c","o","u","l","d">>,
     <<"m","i","g","h","t">>,
     <<"n","o","t"," ","s","u","r","e">>}

KeywordFallback_Execution(user_request) ==
    [intent_category |-> "EXECUTION", aws_service |-> "unknown", confidence |-> "medium"]

\* the except branch of _classify_with_history
KeywordFallback(user_request) ==
    IF AnyInLower(FallbackKeywords, user_request)
    THEN [intent_category |-> "TROUBLESHOOTING", aws_service |-> "unknown", confidence |-> "medium"]
    ELSE [intent_category |-> "EXECUTION", aws_service |-> "unknown", confidence |-> "medium"]

\* the try block of _classify_with_history
ParseClassification(result) ==
    LET text == MessageText(result)
    IN  IF ~text.ok THEN text
        ELSE LET start == Find(text.val, LBrace)
                 end == RFind(text.val, RBrace) + 1
             IN  JsonLoads(PySlice(text.val, start, end))

\* default of last_n in _get_conversation_history, and the value classify_with_context passes
LastN == 3

\* conv.get(session_id, [])[-last_n:]
GetConversationHistory(conv, session_id, last_n) ==
    LET turns == IF session_id \in DOMAIN conv THEN conv[session_id] ELSE <<>>
    IN  PySlice(turns, 0 - last_n, Len(turns))

\* _classify_with_history: the history only shapes the prompt; the reply of the
\* model call is an input.  The call itself is outside the try block.
ClassifyWithHistory(user_request, history, reply) ==
    IF ~reply.ok THEN reply
    ELSE LET parsed == ParseClassification(reply.val)
         IN  IF parsed.ok THEN parsed ELSE Return(KeywordFallback(user_request))

NeedsClarification(result, user_request) ==
    LET confidence == Get(result, "confidence", "high")
    IN  \/ confidence = "low"
        \/ WordCount(user_request) < 4
        \/ AnyInLower(AmbiguousKeywords, user_request)

DefaultQuestion ==
    <<"C","o","u","l","d"," ","y","o","u"," ","p","r","o","v","i","d","e"," ","m","o","r","e"," ","d","e","t","a","i","l","s"," ","a","b","o","u","t"," ","w","h","a","t"," ","A","W","S"," ","s","e","r","v","i","c","e"," ","o","r"," ","a","c","t","i","o","n"," ","y","o","u","'","d"," ","l","i","k","e"," ","h","e","l","p"," ","w","i","t","h","?">>

TxtQuestion ==
    <<" ","W","h","i","c","h"," ","s","e","r","v","i","c","e","?"," ">>

ClarifierReplies == {Raise(MsgModelError), Return(ToolUseResult), Return(TextResult(TxtQuestion))}

GenerateClarification(user_request, classification, reply) ==
    IF ~reply.ok THEN reply
    ELSE LET text == MessageText(reply.val)
         IN  IF text.ok THEN Return(Strip(text.val)) ELSE Return(DefaultQuestion)

HandleClarificationResponse_KeepsPending(pend, conv, user_response, session_id, reply) ==
    LET pending == Lookup(pend, session_id)
        enhanced_request == pending.original_request \o <<" ">> \o user_response
    IN  [out |-> ClassifyWithHistory(enhanced_request,
                     GetConversationHistory(conv, session_id, LastN), reply),
         pending |-> pend, text |-> enhanced_request]

HandleClarificationResponse_AsksAgain(pend, conv, user_response, session_id, reply) ==
    LET pending == Lookup(pend, session_id)
        enhanced_request == pending.original_request \o <<" ">> \o user_response
        result == ClassifyWithHistory(enhanced_request,
                      GetConversationHistory(conv, session_id, LastN), reply)
    IN  IF result.ok /\ NeedsClarification(result.val, enhanced_request)
        THEN [out |-> Return([intent_category |-> "CLARIFICATION",
                              needs_clarification |-> TRUE,
                              clarification_question |-> DefaultQuestion,
                              confidence |-> "low"]),
              pending |-> DictDel(pend, session_id), text |-> enhanced_request]
        ELSE [out |-> result, pending |-> DictDel(pend, session_id),
              text |-> enhanced_request]

HandleClarificationResponse_DeletesAfter(pend, conv, user_response, session_id, reply) ==
    LET pending == Lookup(pend, session_id)
        enhanced_request == pending.original_request \o <<" ">> \o user_response
        result == ClassifyWithHistory(enhanced_request,
                      GetConversationHistory(conv, session_id, LastN), reply)
    IN  [out |-> result,
         pending |-> IF result.ok THEN DictDel(pend, session_id) ELSE pend,
         text |-> enhanced_request]

\* _handle_clarification_response: [out: the call's outcome, pending: the dict after
\* it, text: the text handed to _classify_with_history]
HandleClarificationResponse(pend, conv, user_response, session_id, reply) ==
    IF ~HasKey(pend, session_id)
    THEN [out |-> Raise(MsgKeyErrorSession(session_id)), pending |-> pend,
          text |-> user_response]
    ELSE LET pending == Lookup(pend, session_id)
             enhanced_request == pending.original_request \o <<" ">> \o user_response
         IN  [out |-> ClassifyWithHistory(enhanced_request,
                          GetConversationHistory(conv, session_id, LastN), reply),
              pending |-> DictDel(pend, session_id), text |-> enhanced_request]

\* classify_with_context: [out: the call's outcome, pending: the dict after it,
\* text: the text handed to _classify_with_history]
ClassifyWithContext(pend, conv, user_request, session_id, cls, clar) ==
    IF HasKey(pend, session_id)
    THEN HandleClarificationResponse(pend, conv, user_request, session_id, cls)
    ELSE LET result == ClassifyWithHistory(user_request,
                           GetConversationHistory(conv, session_id, LastN), cls)
         IN  IF ~result.ok THEN [out |-> result, pending |-> pend, text |-> user_request]
             ELSE IF NeedsClarification(result.val, user_request)
             THEN LET clarification == GenerateClarification(user_request, result.val, clar)
                  IN  IF ~clarification.ok
                      THEN [out |-> clarification, pending |-> pend, text |-> user_request]
                      ELSE [out |-> Return([intent_category |-> "CLARIFICATION",
                                            needs_clarification |-> TRUE,
                                            clarification_question |-> clarification.val,
                                            confidence |-> "low"]),
                            pending |-> DictSet(pend, session_id,
                                [original_request |-> user_request,
                                 clarification |-> clarification.val,
                                 suggested_agent |->
                                     Get(result.val, "intent_category", "EXECUTION")]),
                            text |-> user_request]
             ELSE [out |-> result, pending |-> pend, text |-> user_request]

AddConversationTurn_Replaces(conv, session_id, user_message, agent_response, agent_used, clock) ==
    [s \in DOMAIN conv \cup {session_id} |->
        IF s = session_id
        THEN <<[user_message |-> user_message, agent_response |-> agent_response,
                agent_used |-> agent_used, timestamp |-> IsoFormat(clock)]>>
        ELSE conv[s]]

AddConversationTurn_Prepends(conv, session_id, user_message, agent_response, agent_used, clock) ==
    [s \in DOMAIN conv \cup {session_id} |->
        IF s = session_id
        THEN <<[user_message |-> user_message, agent_response |-> agent_response,
                agent_used |-> agent_used, timestamp |-> IsoFormat(clock)]>>
             \o (IF s \in DOMAIN conv THEN conv[s] ELSE <<>>)
        ELSE conv[s]]

AddConversationTurn_Everywhere(conv, session_id, user_message, agent_response, agent_used, clock) ==
    [s \in DOMAIN conv \cup {session_id} |->
        Append(IF s \in DOMAIN conv THEN conv[s] ELSE <<>>,
               [user_message |-> user_message, agent_response |-> agent_response,
                agent_used |-> agent_used, timestamp |-> IsoFormat(clock)])]

\* add_conversation_turn
AddConversationTurn(conv, session_id, user_message, agent_response, agent_used, clock) ==
    LET turn == [user_message |-> user_message, agent_response |-> agent_response,
                 agent_used |-> agent_used, timestamp |-> IsoFormat(clock)]
        old == IF session_id \in DOMAIN conv THEN conv[session_id] ELSE <<>>
    IN  [s \in DOMAIN conv \cup {session_id} |->
            IF s = session_id THEN Append(old, turn) ELSE conv[s]]

----------------------------------------------------------------------------
(* The fix ledger.  A list object lives in the heap under a reference, so   *)
(* that two names for one list see each other's appends.                    *)

Agents == {"intent_classifier", "troubleshooting_agent", "execution_agent",
           "documentation_agent", "validation_agent"}

\* the smallest reference the heap does not use
NewRef(hp) == CHOOSE n \in 1..(Cardinality(DOMAIN hp) + 1) :
                  n \notin DOMAIN hp /\ \A m \in 1..(n - 1) : m \in DOMAIN hp

\* FixAction.create_new: uuid is the value str(uuid.uuid4())[:8] takes
CreateNew(args, uuid, clock) ==
    [action_id |-> uuid, action_type |-> args.action_type,
     resource_type |-> args.resource_type,
     resource_identifier |-> args.resource_identifier,
     description |-> args.description,
     timestamp |-> IsoFormat(clock), success |-> args.success,
     error_message |-> args.error_message, validation_status |-> "pending"]

LogFixAction_Prepends(hp, ref, args, uuid, clock) ==
    [heap |-> [hp EXCEPT ![ref] = <<CreateNew(args, uuid, clock)>> \o @],
     fix_action |-> CreateNew(args, uuid, clock)]

\* log_fix_action on the list that ref names: [heap, fix_action]
LogFixAction(hp, ref, args, uuid, clock) ==
    LET fix_action == CreateNew(args, uuid, clock)
    IN  [heap |-> [hp EXCEPT ![ref] = Append(@, fix_action)], fix_action |-> fix_action]

FromFixes_AlwaysValidates(hp, ref, validation_suggestions) ==
    [fixes_applied |-> ref, total_fixes |-> Len(hp[ref]),
     successful_fixes |-> Cardinality({i \in 1..Len(hp[ref]) : hp[ref][i].success}),
     failed_fixes |-> Cardinality({i \in 1..Len(hp[ref]) : ~hp[ref][i].success}),
     requires_validation |-> TRUE,
     validation_suggestions |-> validation_suggestions]

FromFixes_CountsAll(hp, ref, validation_suggestions) ==
    [fixes_applied |-> ref, total_fixes |-> Len(hp[ref]),
     successful_fixes |-> Len(hp[ref]),
     failed_fixes |-> Cardinality({i \in 1..Len(hp[ref]) : ~hp[ref][i].success}),
     requires_validation |-> Len(hp[ref]) > 0,
     validation_suggestions |-> validation_suggestions]

\* FixResult.from_fixes: fixes_applied is the list passed in, not a copy.
\* validation_suggestions is the value of (validation_suggestions or []), so the
\* argument None is the empty sequence
FromFixes(hp, ref, validation_suggestions) ==
    LET fixes == hp[ref]
        successful == Cardinality({i \in 1..Len(fixes) : fixes[i].success})
        failed == Len(fixes) - successful
    IN  [fixes_applied |-> ref, total_fixes |-> Len(fixes),
         successful_fixes |-> successful, failed_fixes |-> failed,
         requires_validation |-> Len(fixes) > 0,
         validation_suggestions |-> validation_suggestions]

\* get_fix_result
GetFixResult(hp, fa, agent, validation_suggestions) ==
    FromFixes(hp, fa[agent], validation_suggestions)

ClearFixes_Keeps(hp, fa, agent) == [heap |-> hp, fixes_applied |-> fa]

\* clear_fixes: self.fixes_applied = [] binds the agent to a new list
ClearFixes(hp, fa, agent) ==
    LET ref == NewRef(hp)
    IN  [heap |-> [r \in DOMAIN hp \cup {ref} |-> IF r = ref THEN <<>> ELSE hp[r]],
         fixes_applied |-> [fa EXCEPT ![agent] = ref]]

\* the list objects something still refers to
Collect(hp, live) == [r \in DOMAIN hp \cap live |-> hp[r]]

FixArgs(action_type, success) ==
    [action_type |-> action_type, resource_type |-> "lambda",
     resource_identifier |-> "fn-1", description |-> "Raised the timeout",
     success |-> success,
     error_message |-> IF success THEN "None" ELSE "denied"]

\* values of str(uuid.uuid4())[:8]
Uuids == {"1a2b3c4d", "9f8e7d6c"}

----------------------------------------------------------------------------
(* The handlers *)

TxtDone ==
    <<"L","i","s","t","e","d"," ","3"," ","b","u","c","k","e","t","s">>
TxtNoTool ==
    <<"T","h","e"," ","t","o","o","l"," ","i","s"," ","N","o","t"," ","A","v","a","i","l","a","b","l","e">>
TxtGuide ==
    <<"S","e","e"," ","t","h","e"," ","S","3"," ","g","u","i","d","e">>

\* what the agent call of a handler does: the fixes logged while it runs, then
\* its reply
NoFixes == <<>>
TwoFixes ==
    <<[args |-> FixArgs("update", FALSE), uuid |-> "9f8e7d6c"],
      [args |-> FixArgs("restart", TRUE), uuid |-> "1a2b3c4d"]>>

AgentRuns ==
    {[logged |-> NoFixes, reply |-> Return(TextResult(TxtDone))],
     [logged |-> TwoFixes, reply |-> Return(TextResult(TxtDone))],
     [logged |-> TwoFixes, reply |-> Return(TextResult(TxtNoTool))],
     [logged |-> TwoFixes, reply |-> Raise(MsgModelError)],
     [logged |-> NoFixes, reply |-> Return(ToolUseResult)]}

DocReplies == {Raise(MsgModelError), Return(TextResult(TxtGuide))}

RECURSIVE LogAll(_, _, _, _)
LogAll(hp, ref, logged, clock) ==
    IF logged = <<>> THEN hp
    ELSE LogAll(LogFixAction(hp, ref, Head(logged).args, Head(logged).uuid, clock).heap,
                ref, Tail(logged), clock)

\* the result of tool_search and tools_to_strands_mcp_tools as the handlers report it
ToolsInfo == [semantic_search_used |-> TRUE, tools_count |-> 0]

TroubleshootSuggestions ==
    <<"Verify the issue has been resolved", "Check system performance after fixes",
      "Monitor for any side effects">>

ExecuteSuggestions ==
    <<"Verify the operation completed successfully",
      "Check if any optimizations were applied",
      "Confirm resource configurations are optimal">>

\* the handler's ledger after clear_fixes and the agent call: [heap, fixes_applied]
RunAgent(hp, fa, agent, run, clock) ==
    The({[heap |-> LogAll(cleared.heap, cleared.fixes_applied[agent], run.logged, clock),
          fixes_applied |-> cleared.fixes_applied] : cleared \in {ClearFixes(hp, fa, agent)}})

\* lines 87-100 of troubleshoot, on the ledger led that the agent call left
TroubleshootResult(led, run) ==
    [out |-> IF ~run.reply.ok THEN run.reply
             ELSE Return([result |-> run.reply.val, tools_info |-> ToolsInfo,
                          fix_result |-> GetFixResult(led.heap, led.fixes_applied,
                                             "troubleshooting_agent", TroubleshootSuggestions)]),
     heap |-> led.heap, fixes_applied |-> led.fixes_applied]

\* TroubleshootingAgent.troubleshoot: [out, heap, fixes_applied]
Troubleshoot(hp, fa, user_request, intent, context_text, run, clock) ==
    The({TroubleshootResult(led, run) :
            led \in {RunAgent(hp, fa, "troubleshooting_agent", run, clock)}})

MissingPhrases ==
    {<<"n","o","t"," ","a","v","a","i","l","a","b","l","e">>,
     <<"c","a","n","n","o","t"," ","f","i","n","d">>,
     <<"m","i","s","s","i","n","g">>,
     <<"n","o"," ","t","o","o","l","s">>,
     <<"n","o","t"," ","s","u","p","p","o","r","t","e","d">>}

ToolsMissing(response_text) == AnyInLower(MissingPhrases, response_text)

\* lines 83-101 of execute, on the ledger led that the agent call left
ExecuteResult(led, run) ==
    LET response_text == IF run.reply.ok THEN MessageText(run.reply.val) ELSE run.reply
    IN  [out |-> IF ~response_text.ok THEN response_text
                 ELSE Return([result |-> run.reply.val,
                              tools_missing |-> ToolsMissing(response_text.val),
                              tools_info |-> ToolsInfo,
                              fix_result |-> GetFixResult(led.heap, led.fixes_applied,
                                                 "execution_agent", ExecuteSuggestions)]),
         heap |-> led.heap, fixes_applied |-> led.fixes_applied]

\* ExecutionAgent.execute: [out, heap, fixes_applied]
Execute(hp, fa, user_request, intent, context_text, run, clock) ==
    The({ExecuteResult(led, run) : led \in {RunAgent(hp, fa, "execution_agent", run, clock)}})

\* DocumentationAgent.provide_documentation(user_request, intent, execution_response=None),
\* called with the positional arguments args
ProvideDocumentation(args, reply) ==
    IF Len(args) < 2 THEN Raise(MsgMissingIntent) ELSE reply

----------------------------------------------------------------------------
(* The orchestrator *)

SorryPrefix ==
    <<"S","o","r","r","y",","," ","I"," ","e","n","c","o","u","n","t","e","r","e","d"," ","a","n"," ","e","r","r","o","r",":"," ">>
ExtractErrorPrefix ==
    <<"E","r","r","o","r"," ","e","x","t","r","a","c","t","i","n","g"," ","r","e","s","p","o","n","s","e",":"," ">>

EmptyDict == <<>>

\* a handler result is an AgentResult (it has .message) or a dict
IsAgentResult(x) == "content" \in DOMAIN x

\* str(x) of a value that carries no text: a rendering of x
Str(x) == <<[repr |-> x]>>

\* slice [:200] of _build_context_text
ContextChars == 200

\* _build_context_text: "" without history, else one entry per turn
BuildContextText(conversation_history) ==
    [i \in 1..Len(conversation_history) |->
        [user |-> conversation_history[i].user_message,
         assistant |-> PySlice(conversation_history[i].agent_response, 0, ContextChars)]]

ExtractFixInfo(result, agent_used) ==
    IF ~IsAgentResult(result) /\ "fix_result" \in DOMAIN result THEN result.fix_result
    ELSE None

ExtractToolsInfo(result, agent_used) ==
    IF ~IsAgentResult(result) /\ "tools_info" \in DOMAIN result THEN result.tools_info
    ELSE EmptyDict

ExtractResponseText(result) ==
    LET agent_result == IF ~IsAgentResult(result) /\ "result" \in DOMAIN result
                        THEN result.result ELSE result
    IN  IF IsAgentResult(agent_result)
        THEN LET text == MessageText(agent_result)
             IN  IF text.ok THEN text.val ELSE ExtractErrorPrefix \o text.exc
        ELSE Str(agent_result)

\* lines 111-126 of orchestrate_conversation, on the outcome r of execute
AfterExecute(r, user_request, doc) ==
    IF r.out.ok /\ Get(r.out.val, "tools_missing", FALSE)
    THEN LET doc_result == ProvideDocumentation(<<user_request>>, doc)
         IN  [out |-> IF ~doc_result.ok THEN doc_result
                      ELSE Return([result |-> doc_result.val,
                                   tools_info |-> Get(r.out.val, "tools_info", EmptyDict)]),
              agent_used |-> "documentation_agent",
              dispatched |-> <<"execution_agent", "documentation_agent">>,
              handled |-> <<user_request, user_request>>,
              heap |-> r.heap, fixes_applied |-> r.fixes_applied]
    ELSE [out |-> r.out, agent_used |-> "execution_agent",
          dispatched |-> <<"execution_agent">>, handled |-> <<user_request>>,
          heap |-> r.heap, fixes_applied |-> r.fixes_applied]

\* the tests of lines 102 and 106
IsTroubleshooting_Also(intent) ==
    intent.intent_category \in {"TROUBLESHOOTING", "EXECUTION"}

IsTroubleshooting(intent) == intent.intent_category = "TROUBLESHOOTING"

IsExecution(intent) == intent.intent_category = "EXECUTION"

\* lines 102-130 of orchestrate_conversation: the routing and the handler calls.
\* [out, agent_used, dispatched: the handler calls made, in order, handled: the request
\*  text each of them was given, heap, fixes_applied]
Dispatch(hp, fa, user_request, intent, context_text, run, doc, clock) ==
    IF "intent_category" \notin DOMAIN intent
    THEN [out |-> Raise(MsgKeyErrorCategory), agent_used |-> "", dispatched |-> <<>>,
          handled |-> <<>>, heap |-> hp, fixes_applied |-> fa]
    ELSE IF IsTroubleshooting(intent)
    THEN The({[out |-> r.out, agent_used |-> "troubleshooting_agent",
               dispatched |-> <<"troubleshooting_agent">>,
               handled |-> <<user_request>>,
               heap |-> r.heap, fixes_applied |-> r.fixes_applied] :
                 r \in {Troubleshoot(hp, fa, user_request, intent, context_text, run, clock)}})
    ELSE IF IsExecution(intent)
    THEN The({AfterExecute(r, user_request, doc) :
                 r \in {Execute(hp, fa, user_request, intent, context_text, run, clock)}})
    ELSE [out |-> ProvideDocumentation(<<user_request>>, doc),
          agent_used |-> "documentation_agent", dispatched |-> <<"documentation_agent">>,
          handled |-> <<user_request>>, heap |-> hp, fixes_applied |-> fa]

ErrorResult_Unknown(exc, agent_used, intent, session_id) ==
    [response |-> SorryPrefix \o exc, agent_used |-> "unknown", intent |-> intent,
     session_id |-> session_id, needs_clarification |-> FALSE, error |-> TRUE]

\* the except branch, lines 166-178: agent_used and intent are always bound there
ErrorResult(exc, agent_used, intent, session_id) ==
    [response |-> SorryPrefix \o exc, agent_used |-> agent_used, intent |-> intent,
     session_id |-> session_id, needs_clarification |-> FALSE, error |-> TRUE]

Finish_RecordsError(st, user_request, session_id, c, d, clock) ==
    LET intent == c.out.val
        base == [classified |-> c.out, dispatched |-> d.dispatched,
                 handled |-> d.handled, attempt |-> d.out,
                 conversations |-> st.conversations, pending |-> c.pending,
                 heap |-> d.heap, fixes_applied |-> d.fixes_applied]
    IN  IF ~d.out.ok
        THEN [base EXCEPT !.conversations =
                     AddConversationTurn(@, session_id, user_request,
                                         SorryPrefix \o d.out.exc, d.agent_used, clock)]
             @@ [out |-> Return(ErrorResult(d.out.exc, d.agent_used, intent,
                                            session_id))]
        ELSE LET result == d.out.val
                 response_text == ExtractResponseText(result)
                 tools_info == ExtractToolsInfo(result, d.agent_used)
                 fix_result == ExtractFixInfo(result, d.agent_used)
             IN  [base EXCEPT !.conversations =
                         AddConversationTurn(@, session_id, user_request, response_text,
                                             d.agent_used, clock)]
                 @@ [out |-> Return([response |-> response_text,
                                     agent_used |-> d.agent_used,
                                     intent |-> intent,
                                     session_id |-> session_id,
                                     needs_clarification |-> FALSE,
                                     tools_info |-> tools_info,
                                     fix_result |-> fix_result,
                                     requires_validation |->
                                         IF fix_result # None
                                         THEN fix_result.requires_validation
                                         ELSE FALSE])]

\* lines 132-178 of orchestrate_conversation, on the outcome d of the dispatch: the
\* completed turn, or the except branch
Finish(st, user_request, session_id, c, d, clock) ==
    LET intent == c.out.val
        base == [classified |-> c.out, dispatched |-> d.dispatched,
                 handled |-> d.handled, attempt |-> d.out,
                 conversations |-> st.conversations, pending |-> c.pending,
                 heap |-> d.heap, fixes_applied |-> d.fixes_applied]
    IN  IF ~d.out.ok
        THEN base @@ [out |-> Return(ErrorResult(d.out.exc, d.agent_used, intent,
                                                 session_id))]
        ELSE LET result == d.out.val
                 response_text == ExtractResponseText(result)
                 tools_info == ExtractToolsInfo(result, d.agent_used)
                 fix_result == ExtractFixInfo(result, d.agent_used)
             IN  [base EXCEPT !.conversations =
                         AddConversationTurn(@, session_id, user_request, response_text,
                                             d.agent_used, clock)]
                 @@ [out |-> Return([response |-> response_text,
                                     agent_used |-> d.agent_used,
                                     intent |-> intent,
                                     session_id |-> session_id,
                                     needs_clarification |-> FALSE,
                                     tools_info |-> tools_info,
                                     fix_result |-> fix_result,
                                     requires_validation |->
                                         IF fix_result # None
                                         THEN fix_result.requires_validation
                                         ELSE FALSE])]

HandlerRequest_Merged(user_request, classified_text) == classified_text

\* the request text that lines 105-149 hand to the handlers and to
\* add_conversation_turn: the user_request of the call, not the text classified
HandlerRequest(user_request, classified_text) == user_request

WantsClarification_Never(intent) == FALSE

\* the test of line 83
WantsClarification(intent) == Get(intent, "needs_clarification", FALSE)

\* lines 80-178 of orchestrate_conversation, on the state st = [conversations, pending,
\* heap, fixes_applied] and the outcome c of classify_with_context, at the instant clock:
\* [classified: c's outcome, dispatched, attempt: the outcome of lines 99-130, out: what
\*  the call returns or raises, conversations, pending, heap, fixes_applied]
Route(st, user_request, session_id, c, run, doc, clock) ==
    LET same == [classified |-> c.out, dispatched |-> <<>>, handled |-> <<>>,
                 attempt |-> NotCalled,
                 conversations |-> st.conversations, pending |-> c.pending,
                 heap |-> st.heap, fixes_applied |-> st.fixes_applied]
    IN  IF ~c.out.ok THEN same @@ [out |-> c.out]
        ELSE IF WantsClarification(c.out.val)
        THEN same @@ [out |-> Return([response |-> c.out.val.clarification_question,
                                      agent_used |-> "intent_classifier",
                                      needs_clarification |-> TRUE,
                                      session_id |-> session_id])]
        ELSE LET conversation_history ==
                     GetConversationHistory(st.conversations, session_id, LastN)
                 context_text == BuildContextText(conversation_history)
                 passed == HandlerRequest(user_request, c.text)
             IN  The({Finish(st, passed, session_id, c, d, clock) :
                         d \in {Dispatch(st.heap, st.fixes_applied, passed, c.out.val,
                                         context_text, run, doc, clock)}})

----------------------------------------------------------------------------
(* State machine *)

State == [conversations |-> conversations, pending |-> pending_clarifications,
          heap |-> heap, fixes_applied |-> fixes_applied]

\* the agents whose tool_search is called, and the value of a jwt_token
SearchAgents == {"execution_agent", "validation_agent"}

Token(t) == [token |-> t]

\* the agents whose ledger methods are called from outside a handler
LedgerAgents == {"troubleshooting_agent", "execution_agent"}

\* the list a returned value still refers to
RefsOf(out) ==
    IF ~out.ok THEN {}
    ELSE IF "total_fixes" \in DOMAIN out.val THEN {out.val.fixes_applied}
    ELSE IF "fix_result" \in DOMAIN out.val /\ out.val.fix_result # None
    THEN {out.val.fix_result.fixes_applied}
    ELSE {}

Live(fa, out) == {fa[a] : a \in Agents} \cup RefsOf(out)

Init ==
    /\ conversations = <<>>
    /\ pending_clarifications = {}
    /\ fixes_applied = ("intent_classifier" :> 1) @@ ("troubleshooting_agent" :> 2)
                       @@ ("execution_agent" :> 3) @@ ("documentation_agent" :> 4)
                       @@ ("validation_agent" :> 5)
    /\ heap = [r \in 1..5 |-> <<>>]
    /\ now = 0
    /\ last = [call |-> "none"]
    /\ answered = [s \in Sessions |-> "nothing"]
    /\ n_resolved = [s \in Sessions |-> 0]
    /\ n_completed = [s \in Sessions |-> 0]
    /\ threads = [t \in Threads |-> [pc |-> "idle", mine |-> {}]]
    /\ jwt_token = [a \in SearchAgents |-> Token("jwt-0")]

\* the inputs a call of orchestrate_conversation reads, by the path it takes
ClarifierRepliesFor(session_id, user_request, cls) ==
    LET result == ClassifyWithHistory(user_request, <<>>, cls)
    IN  IF /\ ~HasKey(pending_clarifications, session_id)
           /\ result.ok
           /\ NeedsClarification(result.val, user_request)
        THEN ClarifierReplies ELSE {NotCalled}

Resolved(classified) == classified.ok /\ ~Get(classified.val, "needs_clarification", FALSE)

AgentRunsFor(classified) ==
    IF /\ Resolved(classified)
       /\ Get(classified.val, "intent_category", "") \in {"TROUBLESHOOTING", "EXECUTION"}
    THEN AgentRuns ELSE {NotCalled}

DocRepliesFor(classified, run) ==
    LET category == IF Resolved(classified)
                    THEN Get(classified.val, "intent_category", "") ELSE ""
    IN  IF category \in {"", "TROUBLESHOOTING"} THEN {NotCalled}
        ELSE IF category # "EXECUTION" THEN DocReplies
        ELSE IF /\ run.reply.ok
                /\ MessageText(run.reply.val).ok
                /\ ToolsMissing(MessageText(run.reply.val).val)
        THEN DocReplies ELSE {NotCalled}

\* how a call of orchestrate_conversation ended: it raised, or it returned a
\* clarification question, an error result or a completed turn
Ending(out) ==
    IF ~out.ok THEN "raised"
    ELSE IF out.val.needs_clarification THEN "clarification"
    ELSE IF "error" \in DOMAIN out.val THEN "error"
    ELSE "turn"

\* what the classification capability did: the model call raised, or its reply
\* parsed as structured output, or it did not
Capability(cls) ==
    IF ~cls.ok THEN "raised"
    ELSE IF ParseClassification(cls.val).ok THEN "parsed"
    ELSE "unparseable"

\* orchestrate_conversation: classify_with_context (line 77), then lines 80-178
OrchestrateConversation ==
    /\ now < MaxOps
    /\ \E session_id \in Sessions, user_request \in Requests, cls \in ClassifierReplies :
       \E clar \in ClarifierRepliesFor(session_id, user_request, cls) :
          \E c \in {ClassifyWithContext(pending_clarifications, conversations,
                                       user_request, session_id, cls, clar)} :
              \E run \in AgentRunsFor(c.out) :
              \E doc \in DocRepliesFor(c.out, run) :
                 \E r \in {Route(State, user_request, session_id, c, run, doc, now)} :
                 LET done == Ending(r.out) = "turn"
                 IN  /\ conversations' = r.conversations
                     /\ pending_clarifications' = r.pending
                     /\ fixes_applied' = r.fixes_applied
                     /\ heap' = Collect(r.heap, Live(r.fixes_applied, r.out))
                     /\ last' = [call |-> "orchestrate_conversation",
                                 session_id |-> session_id,
                                 user_request |-> user_request,
                                 had_pending |-> HasKey(pending_clarifications, session_id),
                                 previous |-> answered[session_id],
                                 held |-> [a \in LedgerAgents |->
                                              Len(heap[fixes_applied[a]])],
                                 capability |-> Capability(cls),
                                 text |-> c.text,
                                 classified |-> r.classified,
                                 dispatched |-> r.dispatched,
                                 handled |-> r.handled,
                                 attempt |-> r.attempt,
                                 out |-> r.out]
                     /\ answered' = [answered EXCEPT ![session_id] = Ending(r.out)]
                     /\ n_resolved' = [n_resolved EXCEPT ![session_id] =
                                          IF Resolved(r.classified) THEN @ + 1 ELSE @]
                     /\ n_completed' = [n_completed EXCEPT ![session_id] =
                                          IF done THEN @ + 1 ELSE @]
                     /\ now' = now + 1
                     /\ UNCHANGED <<threads, jwt_token>>

\* log_fix_action called on an agent outside a handler run
LogFixActionCall ==
    /\ now < MaxLedgerOps
    /\ \E agent \in LedgerAgents, success \in BOOLEAN, uuid \in Uuids :
          LET r == LogFixAction(heap, fixes_applied[agent], FixArgs("configure", success),
                                uuid, now)
          IN  /\ heap' = Collect(r.heap, Live(fixes_applied, Return(r.fix_action)))
              /\ last' = [call |-> "log_fix_action", agent |-> agent,
                          args |-> FixArgs("configure", success),
                          out |-> Return(r.fix_action)]
              /\ now' = now + 1
              /\ UNCHANGED <<jwt_token, conversations, pending_clarifications, fixes_applied,
                             answered, n_resolved, n_completed, threads>>

GetFixResultCall ==
    /\ now < MaxLedgerOps
    /\ \E agent \in LedgerAgents, given \in BOOLEAN :
          LET suggestions == IF given THEN <<"Check the resource">> ELSE <<>>
              r == GetFixResult(heap, fixes_applied, agent, suggestions)
          IN  /\ heap' = Collect(heap, Live(fixes_applied, Return(r)))
              /\ last' = [call |-> "get_fix_result", agent |-> agent, out |-> Return(r)]
              /\ now' = now + 1
              /\ UNCHANGED <<jwt_token, conversations, pending_clarifications, fixes_applied,
                             answered, n_resolved, n_completed, threads>>

ClearFixesCall ==
    /\ now < MaxLedgerOps
    /\ \E agent \in LedgerAgents :
          LET r == ClearFixes(heap, fixes_applied, agent)
          IN  /\ fixes_applied' = r.fixes_applied
              /\ heap' = Collect(r.heap, Live(r.fixes_applied, Return(None)))
              /\ last' = [call |-> "clear_fixes", agent |-> agent, out |-> Return(None)]
              /\ now' = now + 1
              /\ UNCHANGED <<jwt_token, conversations, pending_clarifications, answered, n_resolved,
                             n_completed, threads>>

\* the orchestrator handling one request after another
Next == OrchestrateConversation

Spec == Init /\ [][Next]_vars

\* the ledger methods of the agents, called one after another
NextLedger ==
    \/ LogFixActionCall
    \/ GetFixResultCall
    \/ ClearFixesCall

SpecLedger == Init /\ [][NextLedger]_vars

----------------------------------------------------------------------------
(* The entry point of the orchestrator runtime *)

\* payload.get("prompt", "Hello")
ReqHello == <<"H","e","l","l","o">>

\* the payloads: a prompt, with or without session_id
Payloads ==
    {[prompt |-> p] : p \in Requests}
    \cup {[prompt |-> p, session_id |-> s] : p \in Requests, s \in Sessions}
    \cup {[session_id |-> s] : s \in Sessions}

\* MultiAgentOrchestrator(use_semantic_search=True): new agents, empty stores
NewOrchestrator ==
    [conversations |-> <<>>, pending |-> {},
     heap |-> [r \in 1..5 |-> <<>>],
     fixes_applied |-> ("intent_classifier" :> 1) @@ ("troubleshooting_agent" :> 2)
                       @@ ("execution_agent" :> 3) @@ ("documentation_agent" :> 4)
                       @@ ("validation_agent" :> 5)]

\* invoke, lines 186-224: a new orchestrator for every payload, and
\* orchestrate_conversation(user_input, "default") on it; the orchestrator is a
\* local of the call, so nothing of it is kept
Invoke ==
    /\ now < MaxInvokes
    /\ \E payload \in Payloads, cls \in ClassifierReplies :
       \E user_input \in {Get(payload, "prompt", ReqHello)},
          session_id \in {Get(payload, "session_id", "default")},
          orchestrator \in {NewOrchestrator} :
       \E clar \in ClarifierRepliesFor("default", user_input, cls) :
       \E c \in {ClassifyWithContext(orchestrator.pending, orchestrator.conversations,
                                    user_input, "default", cls, clar)} :
       \E run \in AgentRunsFor(c.out) :
       \E doc \in DocRepliesFor(c.out, run) :
       \E r \in {Route(orchestrator, user_input, "default", c, run, doc, now)} :
          /\ last' = [call |-> "invoke",
                      payload |-> payload,
                      session_id |-> "default",
                      had_pending |-> HasKey(orchestrator.pending, "default"),
                      history |-> GetConversationHistory(orchestrator.conversations,
                                                         "default", LastN),
                      previous |-> IF session_id \in Sessions
                                   THEN answered[session_id] ELSE "nothing",
                      recorded |-> IF session_id \in Sessions
                                   THEN n_completed[session_id] ELSE 0,
                      result |-> r.out,
                      out |-> IF r.out.ok THEN Return(r.out.val.response) ELSE r.out]
          /\ answered' = IF session_id \in Sessions
                         THEN [answered EXCEPT ![session_id] = Ending(r.out)]
                         ELSE answered
          /\ n_completed' = IF session_id \in Sessions /\ Ending(r.out) = "turn"
                            THEN [n_completed EXCEPT ![session_id] = @ + 1]
                            ELSE n_completed
    /\ now' = now + 1
    /\ UNCHANGED <<jwt_token, conversations, pending_clarifications, fixes_applied, heap,
                   n_resolved, threads>>

NextEntry == Invoke

SpecEntry == Init /\ [][NextEntry]_vars

----------------------------------------------------------------------------
(* The classifier alone *)

\* the entry of a session in pending_clarifications, or None
PendingEntry(pend, session_id) ==
    IF HasKey(pend, session_id) THEN Lookup(pend, session_id) ELSE None

\* classify_with_context called directly
ClassifyWithContextCall ==
    /\ now < MaxClassifierOps
    /\ \E session_id \in Sessions, user_request \in Requests, cls \in ClassifierReplies :
       \E clar \in ClarifierRepliesFor(session_id, user_request, cls) :
          \E c \in {ClassifyWithContext(pending_clarifications, conversations,
                                       user_request, session_id, cls, clar)} :
             /\ pending_clarifications' = c.pending
             /\ last' = [call |-> "classify_with_context",
                         session_id |-> session_id,
                         user_request |-> user_request,
                         had_pending |-> HasKey(pending_clarifications, session_id),
                         entry |-> PendingEntry(pending_clarifications, session_id),
                         reply |-> cls,
                         clarifier |-> clar,
                         text |-> c.text,
                         out |-> c.out]
    /\ now' = now + 1
    /\ UNCHANGED <<jwt_token, conversations, fixes_applied, heap, answered, n_resolved, n_completed,
                   threads>>

\* add_conversation_turn called directly
AddConversationTurnCall ==
    /\ now < MaxClassifierOps
    /\ \E session_id \in Sessions, user_message \in {ReqList, ReqWhy},
          agent_used \in LedgerAgents :
          /\ conversations' = AddConversationTurn(conversations, session_id, user_message,
                                                  TxtDone, agent_used, now)
          /\ last' = [call |-> "add_conversation_turn", session_id |-> session_id,
                      out |-> Return(None)]
    /\ now' = now + 1
    /\ UNCHANGED <<jwt_token, pending_clarifications, fixes_applied, heap, answered, n_resolved,
                   n_completed, threads>>

NextClassifier ==
    \/ ClassifyWithContextCall
    \/ AddConversationTurnCall

SpecClassifier == Init /\ [][NextClassifier]_vars

----------------------------------------------------------------------------
(* Two requests handled at once by the handlers of one orchestrator.  The   *)
(* handlers are attributes of the orchestrator, so both requests run on the *)
(* same agent objects; a thread switch can fall between any two statements. *)

\* the session whose request each thread handles
SessionOf == ("t1" :> "A") @@ ("t2" :> "B")

\* what the caller of the last call still holds
Reply == IF "out" \in DOMAIN last THEN last.out ELSE Return(None)

\* troubleshoot line 21, execute line 18: the handler starts with clear_fixes()
HandlerBegin(t) ==
    /\ now < MaxHandlerOps
    /\ threads[t].pc = "idle"
    /\ \E agent \in LedgerAgents :
          \E r \in {ClearFixes(heap, fixes_applied, agent)} :
             /\ fixes_applied' = r.fixes_applied
             /\ heap' = Collect(r.heap, Live(r.fixes_applied, Reply))
             /\ threads' = [threads EXCEPT ![t] =
                               [pc |-> "running", agent |-> agent, mine |-> @.mine]]
    /\ now' = now + 1
    /\ UNCHANGED <<jwt_token, conversations, pending_clarifications, last, answered, n_resolved,
                   n_completed>>

\* a fix logged while the agent call of the handler runs: log_fix_action appends to
\* the list self.fixes_applied names at that moment
HandlerAppend(t) ==
    /\ now < MaxHandlerOps
    /\ threads[t].pc = "running"
    /\ \E success \in BOOLEAN :
          \E r \in {LogFixAction(heap, fixes_applied[threads[t].agent],
                                 FixArgs("update", success), "1a2b3c4d", now)} :
             /\ heap' = r.heap
             /\ threads' = [threads EXCEPT ![t].mine = @ \cup {r.fix_action.timestamp}]
    /\ now' = now + 1
    /\ UNCHANGED <<jwt_token, conversations, pending_clarifications, fixes_applied, last, answered,
                   n_resolved, n_completed>>

\* troubleshoot lines 90-100, execute lines 90-101: get_fix_result and the return
HandlerReturn(t) ==
    /\ now < MaxHandlerOps
    /\ threads[t].pc = "running"
    /\ \E r \in {GetFixResult(heap, fixes_applied, threads[t].agent,
                               IF threads[t].agent = "troubleshooting_agent"
                               THEN TroubleshootSuggestions ELSE ExecuteSuggestions)} :
          /\ last' = [call |-> "handler", thread |-> t, session_id |-> SessionOf[t],
                      agent |-> threads[t].agent, out |-> Return(r)]
          /\ heap' = Collect(heap, Live(fixes_applied, Return(r)))
    /\ threads' = [threads EXCEPT ![t] = [pc |-> "idle", mine |-> @.mine]]
    /\ now' = now + 1
    /\ UNCHANGED <<jwt_token, conversations, pending_clarifications, fixes_applied, answered,
                   n_resolved, n_completed>>

\* the session both requests are for when they race inside classify_with_context
RaceSession == "A"

\* classify_with_context line 33, the test (session_id in pending_clarifications);
\* without a pending entry the fresh path, lines 36-57, follows
RaceEnter(t) ==
    /\ now < MaxRaceOps
    /\ threads[t].pc = "idle"
    /\ \E user_request \in Requests :
          IF HasKey(pending_clarifications, RaceSession)
          THEN /\ threads' = [threads EXCEPT ![t] =
                                 [pc |-> "line 152", mine |-> @.mine,
                                  user_request |-> user_request]]
               /\ UNCHANGED <<pending_clarifications, last>>
          ELSE \E cls \in ClassifierReplies :
               \E clar \in ClarifierRepliesFor(RaceSession, user_request, cls) :
               \E c \in {ClassifyWithContext(pending_clarifications, conversations,
                                            user_request, RaceSession, cls, clar)} :
                  /\ pending_clarifications' = c.pending
                  /\ last' = [call |-> "classify_with_context in a thread",
                              thread |-> t, session_id |-> RaceSession,
                              user_request |-> user_request, merged |-> FALSE,
                              out |-> c.out]
                  /\ UNCHANGED threads
    /\ now' = now + 1
    /\ UNCHANGED <<jwt_token, conversations, fixes_applied, heap, answered, n_resolved, n_completed>>

\* _handle_clarification_response lines 152-153: read the entry, build the text
RaceRead(t) ==
    /\ now < MaxRaceOps
    /\ threads[t].pc = "line 152"
    /\ IF HasKey(pending_clarifications, RaceSession)
       THEN /\ threads' = [threads EXCEPT ![t] =
                              [pc |-> "line 156", mine |-> @.mine,
                               user_request |-> @.user_request,
                               enhanced_request |->
                                   Lookup(pending_clarifications, RaceSession).original_request
                                   \o <<" ">> \o @.user_request]]
            /\ UNCHANGED last
       ELSE /\ threads' = [threads EXCEPT ![t] = [pc |-> "idle", mine |-> @.mine]]
            /\ last' = [call |-> "classify_with_context in a thread",
                        thread |-> t, session_id |-> RaceSession,
                        user_request |-> threads[t].user_request, merged |-> FALSE,
                        out |-> Raise(MsgKeyErrorSession(RaceSession))]
    /\ now' = now + 1
    /\ UNCHANGED <<jwt_token, conversations, pending_clarifications, fixes_applied, heap, answered,
                   n_resolved, n_completed>>

\* _handle_clarification_response line 156: del self.pending_clarifications[session_id]
RaceDelete(t) ==
    /\ now < MaxRaceOps
    /\ threads[t].pc = "line 156"
    /\ IF HasKey(pending_clarifications, RaceSession)
       THEN /\ pending_clarifications' = DictDel(pending_clarifications, RaceSession)
            /\ threads' = [threads EXCEPT ![t].pc = "line 159"]
            /\ UNCHANGED last
       ELSE /\ threads' = [threads EXCEPT ![t] = [pc |-> "idle", mine |-> @.mine]]
            /\ last' = [call |-> "classify_with_context in a thread",
                        thread |-> t, session_id |-> RaceSession,
                        user_request |-> threads[t].user_request, merged |-> TRUE,
                        out |-> Raise(MsgKeyErrorSession(RaceSession))]
            /\ UNCHANGED pending_clarifications
    /\ now' = now + 1
    /\ UNCHANGED <<jwt_token, conversations, fixes_applied, heap, answered, n_resolved, n_completed>>

\* _handle_clarification_response line 159: classify the merged text and return
RaceClassify(t) ==
    /\ now < MaxRaceOps
    /\ threads[t].pc = "line 159"
    /\ \E cls \in ClassifierReplies :
          last' = [call |-> "classify_with_context in a thread",
                   thread |-> t, session_id |-> RaceSession,
                   user_request |-> threads[t].user_request, merged |-> TRUE,
                   out |-> ClassifyWithHistory(threads[t].enhanced_request,
                               GetConversationHistory(conversations, RaceSession, LastN),
                               cls)]
    /\ threads' = [threads EXCEPT ![t] = [pc |-> "idle", mine |-> @.mine]]
    /\ now' = now + 1
    /\ UNCHANGED <<jwt_token, conversations, pending_clarifications, fixes_applied, heap, answered,
                   n_resolved, n_completed>>

NextRace ==
    \E t \in Threads :
        \/ RaceEnter(t)
        \/ RaceRead(t)
        \/ RaceDelete(t)
        \/ RaceClassify(t)

SpecRace == Init /\ [][NextRace]_vars

NextHandlers ==
    \E t \in Threads :
        \/ HandlerBegin(t)
        \/ HandlerAppend(t)
        \/ HandlerReturn(t)

SpecHandlers == Init /\ [][NextHandlers]_vars

----------------------------------------------------------------------------
(* Capability discovery: BaseAgent.tool_search and the gateway it asks.     *)
(* A value decoded from JSON carries its Python type, so that the tests and *)
(* subscripts of the code raise what Python raises.  None is the value of   *)
(* JSON null.                                                               *)

PyDict(r) == [dict |-> r]
PyList(s) == [list |-> s]
PyStr(toks) == [str |-> toks]

\* classes of the exceptions raised below, as their str() is not read
ExcKeyError == <<"KeyError">>
ExcIndexError == <<"IndexError">>
ExcTypeError == <<"TypeError">>
ExcJSONDecodeError == <<"JSONDecodeError">>
ExcConnectionError == <<"ConnectionError">>
ExcRefreshError == <<"RuntimeError">>

\* issubclass(exc, requests.RequestException)
IsRequestException(exc) == exc \in {ExcConnectionError, <<"Timeout">>, <<"RequestException">>}

\* a token of a text that spells the dict key k, and the brackets of a JSON array
Word(k) == [t |-> "word", w |-> k]
LBracket == [t |-> "["]
RBracket == [t |-> "]"]

\* key in x, for a str key
In(key, x) ==
    IF "dict" \in DOMAIN x THEN Return(key \in DOMAIN x.dict)
    ELSE IF "list" \in DOMAIN x
    THEN Return(\E i \in 1..Len(x.list) :
                   "str" \in DOMAIN x.list[i] /\ x.list[i].str = <<Word(key)>>)
    ELSE IF "str" \in DOMAIN x THEN Return(Contains(x.str, <<Word(key)>>))
    ELSE Raise(ExcTypeError)

\* x[key], for a str key
GetItem(x, key) ==
    IF "dict" \in DOMAIN x
    THEN IF key \in DOMAIN x.dict THEN Return(x.dict[key]) ELSE Raise(ExcKeyError)
    ELSE Raise(ExcTypeError)

\* x[0]
Index0(x) ==
    IF "list" \in DOMAIN x
    THEN IF Len(x.list) > 0 THEN Return(x.list[1]) ELSE Raise(ExcIndexError)
    ELSE IF "str" \in DOMAIN x
    THEN IF Len(x.str) > 0 THEN Return(PyStr(<<x.str[1]>>)) ELSE Raise(ExcIndexError)
    ELSE IF "dict" \in DOMAIN x THEN Raise(ExcKeyError)
    ELSE Raise(ExcTypeError)

\* json.loads(x) of line 153: the text is one JSON object or the empty JSON array,
\* or JSONDecodeError; TypeError when x is no text
JsonLoadsValue(x) ==
    IF "str" \notin DOMAIN x THEN Raise(ExcTypeError)
    ELSE IF x.str = <<LBracket, RBracket>> THEN Return(PyList(<<>>))
    ELSE IF Len(x.str) = 3 /\ JsonLoads(x.str).ok THEN Return(PyDict(JsonLoads(x.str).val))
    ELSE Raise(ExcJSONDecodeError)

\* holder["content"][0]["text"], lines 146 and 148
ContentText(holder) ==
    LET content == GetItem(holder, "content")
        block == IF content.ok THEN Index0(content.val) ELSE content
    IN  IF block.ok THEN GetItem(block.val, "text") ELSE block

\* the branch of lines 149-151
UnexpectedFormat == [ok |-> TRUE, format |-> "unexpected"]

\* lines 145-151: the text that holds the tools, UnexpectedFormat, or an exception
SelectText(result) ==
    LET has_result == In("result", result)
        inner == IF has_result.ok /\ has_result.val THEN GetItem(result, "result")
                 ELSE has_result
        nested == IF inner.ok /\ has_result.val THEN In("content", inner.val) ELSE inner
    IN  IF ~nested.ok THEN nested
        ELSE IF has_result.val /\ nested.val THEN ContentText(inner.val)
        ELSE IF In("content", result).val THEN ContentText(result)
        ELSE UnexpectedFormat

\* lines 142-154 on the response that was received last
ReadResponse(response) ==
    IF ~response.json.ok THEN response.json
    ELSE LET tools == SelectText(response.json.val)
             parsed_tools == IF tools.ok /\ "format" \notin DOMAIN tools
                             THEN JsonLoadsValue(tools.val) ELSE tools
         IN  IF ~parsed_tools.ok THEN parsed_tools
             ELSE IF "format" \in DOMAIN parsed_tools THEN Return(PyList(<<>>))
             ELSE GetItem(parsed_tools.val, "tools")

\* the except clause of line 156
Caught(outcome) ==
    IF outcome.ok THEN outcome
    ELSE IF outcome.exc \in {ExcKeyError, ExcJSONDecodeError} \/ IsRequestException(outcome.exc)
    THEN Return(PyList(<<>>))
    ELSE outcome

Truthy_Always(new_token) == TRUE

\* if new_token: of line 127
Truthy(new_token) == "token" \in DOMAIN new_token /\ new_token.token # ""

\* the request that requests.post sends with the token of the agent
SearchRequest(token, query) ==
    [name |-> "x_amz_bedrock_agentcore_search", query |-> query, authorization |-> token]

\* tool_search of an agent whose jwt_token is token: first and second are what
\* requests.post gives, refresh what refresh_access_token gives.
\* [out, jwt_token, sent: the requests sent, in order]
ToolSearch(token, query, first, refresh, second) ==
    LET one == <<SearchRequest(token, query)>>
        empty == Return(PyList(<<>>))
    IN  IF ~first.ok
        THEN [out |-> Caught(first), jwt_token |-> token, sent |-> one]
        ELSE IF first.val.status_code # 401
        THEN [out |-> Caught(ReadResponse(first.val)), jwt_token |-> token, sent |-> one]
        ELSE IF ~refresh.ok
        THEN [out |-> empty, jwt_token |-> token, sent |-> one]
        ELSE IF ~Truthy(refresh.val)
        THEN [out |-> Caught(ReadResponse(first.val)), jwt_token |-> token, sent |-> one]
        ELSE LET two == Append(one, SearchRequest(refresh.val, query))
             IN  IF ~second.ok
                 THEN [out |-> empty, jwt_token |-> refresh.val, sent |-> two]
                 ELSE [out |-> Caught(ReadResponse(second.val)),
                       jwt_token |-> refresh.val, sent |-> two]

\* the gateway's tools, the text that lists them and the bodies that carry it
ToolListBuckets ==
    PyDict([name |-> "ListBuckets", description |-> "Lists the buckets",
            inputSchema |-> "object"])
ToolNoSchema == PyDict([name |-> "GetMetricData", description |-> "Reads a metric"])

ToolsText(tools) == PyStr(<<LBrace, Members([tools |-> PyList(tools)]), RBrace>>)
TextBlock(text) == PyDict([type |-> "text", text |-> text])
CallToolResult(content) == PyDict([content |-> PyList(content)])
RpcResult(result) == PyDict([jsonrpc |-> "2.0", id |-> 2, result |-> result])
RpcError == PyDict([jsonrpc |-> "2.0", id |-> 2, error |-> "denied"])

\* bodies that list tools in one of the two formats of lines 145-148
GoodBodies ==
    {RpcResult(CallToolResult(<<TextBlock(ToolsText(<<ToolListBuckets>>))>>)),
     RpcResult(CallToolResult(<<TextBlock(ToolsText(<<ToolListBuckets, ToolNoSchema>>))>>)),
     CallToolResult(<<TextBlock(ToolsText(<<ToolListBuckets>>))>>)}

Bodies ==
    GoodBodies
    \cup {RpcError,
          PyList(<<>>),
          None,
          RpcResult(None),
          RpcResult(CallToolResult(<<>>)),
          RpcResult(CallToolResult(<<PyDict([type |-> "image"])>>)),
          RpcResult(CallToolResult(<<TextBlock(PyStr(<<Prose>>))>>)),
          RpcResult(CallToolResult(<<TextBlock(PyStr(<<LBrace, Members([count |-> 0]), RBrace>>))>>)),
          RpcResult(CallToolResult(<<TextBlock(PyStr(<<LBracket, RBracket>>))>>)),
          RpcResult(CallToolResult(<<TextBlock(None)>>))}

\* a response: its status code and what response.json() gives
Response(status_code, json) == [status_code |-> status_code, json |-> json]

Responses ==
    {Raise(ExcConnectionError),
     Return(Response(200, Raise(ExcJSONDecodeError))),
     Return(Response(401, Return(RpcError))),
     Return(Response(401, Raise(ExcJSONDecodeError)))}
    \cup {Return(Response(200, Return(body))) : body \in Bodies}

\* what the gateway answers to the request sent again
RetryResponses ==
    {Raise(ExcConnectionError),
     Return(Response(401, Return(RpcError))),
     Return(Response(200, Return(RpcResult(CallToolResult(<<>>)))))}
    \cup {Return(Response(200, Return(body))) : body \in GoodBodies}

Refreshes ==
    {Raise(ExcRefreshError), Return(None), Return(Token("")), Return(Token("jwt-1"))}

Queries == {"list s3 buckets"}

\* the inputs a call of tool_search reads, by the path it takes
RefreshesFor(first) ==
    IF first.ok /\ first.val.status_code = 401 THEN Refreshes ELSE {NotCalled}

RetryResponsesFor(refresh) ==
    IF "ok" \in DOMAIN refresh /\ refresh.ok /\ Truthy(refresh.val)
    THEN RetryResponses ELSE {NotCalled}

\* tool_search called on an agent
ToolSearchCall ==
    /\ now < MaxSearchOps
    /\ \E agent \in SearchAgents, query \in Queries, first \in Responses :
       \E refresh \in RefreshesFor(first) :
       \E second \in RetryResponsesFor(refresh) :
       \E r \in {ToolSearch(jwt_token[agent], query, first, refresh, second)} :
          /\ jwt_token' = [jwt_token EXCEPT ![agent] = r.jwt_token]
          /\ last' = [call |-> "tool_search", agent |-> agent, query |-> query,
                      token |-> jwt_token[agent], first |-> first, refresh |-> refresh,
                      second |-> second, sent |-> r.sent, out |-> r.out]
          /\ now' = now + 1
          /\ UNCHANGED <<conversations, pending_clarifications, fixes_applied, heap,
                         answered, n_resolved, n_completed, threads>>

NextSearch == ToolSearchCall

SpecSearch == Init /\ [][NextSearch]_vars

----------------------------------------------------------------------------
(* The validation handler: ValidationAgent.validate_fixes *)

TxtNoFixes == <<"N","o"," ","f","i","x","e","s"," ","t","o"," ","v","a","l","i","d","a","t","e">>
TxtChecked == <<"C","h","e","c","k","e","d">>

\* the first n elements of a list: s[:n]
Take(s, n) == SubSeq(s, 1, Min(n, Len(s)))

\* tools_to_strands_mcp_tools(tools, top_n): the names of the tools made, or the
\* KeyError of a tool that lacks one of the three keys
ToolsToStrandsMcpTools(tools, top_n) ==
    LET taken == Take(tools.list, top_n)
    IN  IF \E i \in 1..Len(taken) :
               ~({"name", "description", "inputSchema"} \subseteq DOMAIN taken[i].dict)
        THEN Raise(ExcKeyError)
        ELSE Return([i \in 1..Len(taken) |-> taken[i].dict.name])

\* lines 41-46 and 51-55 of validate_fixes
SearchToolsInfo(tools_found, tools) ==
    [semantic_search_used |-> TRUE,
     search_query |-> "validate check status describe get configuration",
     tools_found |-> [i \in 1..Len(Take(tools_found.list, 10)) |->
                         Get(tools_found.list[i].dict, "name", "Unknown")],
     tools_count |-> Len(tools)]

AllToolsInfo(tools) ==
    [semantic_search_used |-> FALSE, total_tools |-> Len(tools), tools_count |-> Len(tools)]

ProcessValidationResults_Reversed(fixes, agent_result) ==
    [i \in 1..Len(fixes) |->
        [fix_id |-> fixes[Len(fixes) + 1 - i].action_id,
         resource |-> fixes[Len(fixes) + 1 - i].resource_identifier,
         status |-> "PENDING",
         message |-> <<"Validation pending for ", fixes[Len(fixes) + 1 - i].description>>,
         timestamp |-> fixes[Len(fixes) + 1 - i].timestamp]]

\* _process_validation_results
ProcessValidationResults(fixes, agent_result) ==
    [i \in 1..Len(fixes) |->
        [fix_id |-> fixes[i].action_id,
         resource |-> fixes[i].resource_identifier,
         status |-> "PENDING",
         message |-> <<"Validation pending for ", fixes[i].description>>,
         timestamp |-> fixes[i].timestamp]]

\* lines 77-94 of validate_fixes, with the tools and tools_info of lines 34-55
RunValidation(fixes_to_validate, tools_info, reply) ==
    IF ~reply.ok THEN reply
    ELSE LET validation_results == ProcessValidationResults(fixes_to_validate, reply.val)
         IN  Return([result |-> reply.val,
                     tools_info |-> tools_info,
                     validation_results |-> validation_results,
                     all_validated |-> \A i \in 1..Len(validation_results) :
                                          validation_results[i].status = "PASS"])

\* validate_fixes after clear_fixes (line 23), on the outcome search of tool_search
\* or the list all_tools of get_all_tools
ValidateFixesBody(fixes_to_validate, use_semantic_search, search, all_tools, reply) ==
    IF fixes_to_validate = <<>>
    THEN Return([result |-> TxtNoFixes, validation_results |-> <<>>, all_validated |-> TRUE])
    ELSE IF ~use_semantic_search
    THEN RunValidation(fixes_to_validate, AllToolsInfo(all_tools), reply)
    ELSE IF ~search.ok THEN search
    ELSE LET tools == ToolsToStrandsMcpTools(search.val, 15)
         IN  IF ~tools.ok THEN tools
             ELSE RunValidation(fixes_to_validate, SearchToolsInfo(search.val, tools.val),
                                reply)

\* the lists of FixAction passed to validate_fixes
FixOne == CreateNew(FixArgs("update", TRUE), "1a2b3c4d", 0)
FixTwo == [CreateNew(FixArgs("restart", FALSE), "9f8e7d6c", 1)
              EXCEPT !.resource_identifier = "bucket-2"]

FixLists == {<<>>, <<FixOne>>, <<FixOne, FixTwo>>, <<FixTwo, FixOne>>}

ValidationReplies == {Raise(MsgModelError), Return(TextResult(TxtChecked))}

\* what get_all_tools returns
AllTools == {<<>>, <<"ListBuckets", "GetMetricData">>}

\* the inputs a call of validate_fixes reads, by the path it takes
ResponsesFor(fixes_to_validate, use_semantic_search) ==
    IF fixes_to_validate # <<>> /\ use_semantic_search THEN Responses ELSE {NotCalled}

AllToolsFor(fixes_to_validate, use_semantic_search) ==
    IF fixes_to_validate # <<>> /\ ~use_semantic_search THEN AllTools ELSE {NotCalled}

ValidationRepliesFor(fixes_to_validate, use_semantic_search, search) ==
    IF fixes_to_validate = <<>> THEN {NotCalled}
    ELSE IF ~use_semantic_search THEN ValidationReplies
    ELSE IF search.ok /\ ToolsToStrandsMcpTools(search.val, 15).ok THEN ValidationReplies
    ELSE {NotCalled}

\* tool_search as validate_fixes calls it, when it does
SearchFor(first, refresh, second) ==
    IF "ok" \in DOMAIN first
    THEN ToolSearch(jwt_token["validation_agent"],
                    "validate check status describe get configuration",
                    first, refresh, second)
    ELSE [out |-> NotCalled, jwt_token |-> jwt_token["validation_agent"], sent |-> <<>>]

\* validate_fixes called on the validation agent
ValidateFixesCall ==
    /\ now < MaxValidateOps
    /\ \E fixes_to_validate \in FixLists, use_semantic_search \in BOOLEAN :
       \E first \in ResponsesFor(fixes_to_validate, use_semantic_search) :
       \E all_tools \in AllToolsFor(fixes_to_validate, use_semantic_search) :
       \E refresh \in (IF "ok" \in DOMAIN first THEN RefreshesFor(first) ELSE {NotCalled}) :
       \E second \in RetryResponsesFor(refresh) :
       \E s \in {SearchFor(first, refresh, second)} :
       \E reply \in ValidationRepliesFor(fixes_to_validate, use_semantic_search, s.out) :
       \E cleared \in {ClearFixes(heap, fixes_applied, "validation_agent")} :
       \E out \in {ValidateFixesBody(fixes_to_validate, use_semantic_search, s.out,
                                     all_tools, reply)} :
          /\ fixes_applied' = cleared.fixes_applied
          /\ heap' = Collect(cleared.heap, Live(cleared.fixes_applied, Return(None)))
          /\ jwt_token' = [jwt_token EXCEPT !["validation_agent"] = s.jwt_token]
          /\ last' = [call |-> "validate_fixes", fixes_to_validate |-> fixes_to_validate,
                      use_semantic_search |-> use_semantic_search,
                      sent |-> s.sent, search |-> s.out, reply |-> reply, out |-> out]
          /\ now' = now + 1
          /\ UNCHANGED <<conversations, pending_clarifications, answered, n_resolved,
                         n_completed, threads>>

NextValidation == ValidateFixesCall

SpecValidation == Init /\ [][NextValidation]_vars

----------------------------------------------------------------------------
(* Properties *)

Orchestrated == last.call = "orchestrate_conversation"

Turns(s) == IF s \in DOMAIN conversations THEN conversations[s] ELSE <<>>

PendingOf(s) == {p \in pending_clarifications : p[1] = s}

\* the contents of every agent's ledger
Ledgers == [a \in Agents |-> heap[fixes_applied[a]]]

\* C1: every session has at most one pending clarification, and a request of a
\* session that had one pending consumes it: after the call the session has none,
\* whatever the request text was.
C1_PendingConsumed ==
    /\ \A s \in Sessions : Cardinality(PendingOf(s)) <= 1
    /\ (Orchestrated /\ last.had_pending) => PendingOf(last.session_id) = {}

\* a short, ambiguous answer to a pending clarification was classified
C1_Witness ==
    /\ Orchestrated
    /\ last.had_pending
    /\ last.user_request = ReqHelp
    /\ last.classified.ok
    /\ PendingOf(last.session_id) = {}

\* C2: the request that follows a clarification reply in the same session is never
\* answered with a clarification reply, even when its classification has confidence low.
C2_NoClarificationLoop ==
    (Orchestrated /\ last.previous = "clarification")
        => Ending(last.out) # "clarification"

\* the answer to a clarification was classified with confidence low and resolved
C2_Witness ==
    /\ Orchestrated
    /\ last.previous = "clarification"
    /\ last.user_request = ReqHelp
    /\ last.classified.ok
    /\ Get(last.classified.val, "confidence", "high") = "low"
    /\ Ending(last.out) \in {"turn", "error"}

\* C3: when the classification capability fails, by raising or by returning text that
\* is not structured output, classification still returns a result, and a resolved
\* one is the keyword fallback (confidence medium, aws_service unknown).
C3_ClassificationNeverFails ==
    (Orchestrated /\ last.capability # "parsed")
        => /\ last.classified.ok
           /\ Resolved(last.classified)
                 => /\ Get(last.classified.val, "confidence", "") = "medium"
                    /\ Get(last.classified.val, "aws_service", "") = "unknown"

\* an exception was raised inside the try block of orchestrate_conversation before
\* the result was extracted (by a handler call, or by the routing itself)
DispatchRaised == Orchestrated /\ "ok" \in DOMAIN last.attempt /\ ~last.attempt.ok

HandlerRaised == DispatchRaised /\ last.dispatched # <<>>

\* the handler returned, and reading the text of its result raised
ExtractionRaised ==
    /\ Orchestrated
    /\ "ok" \in DOMAIN last.attempt
    /\ last.attempt.ok
    /\ LET result == last.attempt.val
           agent_result == IF ~IsAgentResult(result) /\ "result" \in DOMAIN result
                           THEN result.result ELSE result
       IN  IsAgentResult(agent_result) /\ ~MessageText(agent_result).ok

SelectedAgent == IF last.dispatched = <<>> THEN ""
                 ELSE last.dispatched[Len(last.dispatched)]

IsErrorResult(exc) ==
    /\ last.out.ok
    /\ "error" \in DOMAIN last.out.val
    /\ last.out.val.error = TRUE
    /\ last.out.val.needs_clarification = FALSE
    /\ last.out.val.response = SorryPrefix \o exc
    /\ last.out.val.agent_used = SelectedAgent
    /\ last.out.val.intent = last.classified.val

ToolsMissingSeen ==
    Orchestrated /\ last.dispatched = <<"execution_agent", "documentation_agent">>

\* C5: when the execution result has tools_missing=true, the request is dispatched
\* again to the documentation handler and the turn completes: a turn is recorded
\* with agent_used the documentation handler, the intent still has category
\* EXECUTION, and the result is not an error result.
C5_FallbackCompletes ==
    ToolsMissingSeen
        => /\ Ending(last.out) = "turn"
           /\ last.out.val.agent_used = "documentation_agent"
           /\ last.out.val.intent.intent_category = "EXECUTION"
           /\ Turns(last.session_id) # <<>>
           /\ Turns(last.session_id)[Len(Turns(last.session_id))].agent_used
                 = "documentation_agent"

\* C6: for a resolved classification the first handler called is fixed by
\* intent_category: troubleshooting iff TROUBLESHOOTING, execution iff EXECUTION,
\* documentation directly otherwise; troubleshooting and execution are never both
\* called in one request.
C6_RoutingByCategory ==
    (/\ Orchestrated
     /\ Resolved(last.classified)
     /\ "intent_category" \in DOMAIN last.classified.val)
        => LET category == last.classified.val.intent_category
               d == last.dispatched
               called == {d[i] : i \in 1..Len(d)}
           IN  /\ Len(d) >= 1
               /\ d[1] = "troubleshooting_agent" <=> category = "TROUBLESHOOTING"
               /\ d[1] = "execution_agent" <=> category = "EXECUTION"
               /\ category \notin {"TROUBLESHOOTING", "EXECUTION"}
                     => d = <<"documentation_agent">>
               /\ ~({"troubleshooting_agent", "execution_agent"} \subseteq called)
               /\ \A i \in 2..Len(d) : d[i] = "documentation_agent"

\* an EXECUTION request went to the execution handler alone
C6_Witness ==
    /\ Orchestrated
    /\ Resolved(last.classified)
    /\ Get(last.classified.val, "intent_category", "") = "EXECUTION"
    /\ last.dispatched = <<"execution_agent">>
    /\ Ending(last.out) = "turn"

\* C7: when the classifier returns a clarification, orchestrate_conversation returns
\* needs_clarification=true with the clarification question as response; no handler
\* is called, and no agent's ledger and no conversation changes.
C7_ClarificationShortCircuit ==
    [][(/\ last'.call = "orchestrate_conversation"
        /\ last'.classified.ok
        /\ Get(last'.classified.val, "needs_clarification", FALSE))
          => /\ last'.out.ok
             /\ last'.out.val.needs_clarification = TRUE
             /\ last'.out.val.response = last'.classified.val.clarification_question
             /\ last'.out.val.agent_used = "intent_classifier"
             /\ last'.dispatched = <<>>
             /\ fixes_applied' = fixes_applied
             /\ Ledgers' = Ledgers
             /\ conversations' = conversations]_vars

\* a clarification was returned while a handler's ledger held fix actions
C7_Witness ==
    /\ Orchestrated
    /\ Ending(last.out) = "clarification"
    /\ last.dispatched = <<>>
    /\ \E a \in Agents : Ledgers[a] # <<>>

TurnFieldsFilled(t) ==
    /\ t.user_message # <<>>
    /\ t.agent_response # <<>>
    /\ t.agent_used # ""
    /\ t.timestamp # <<>>

C9_AppendOnly ==
    [][\A s \in DOMAIN conversations :
          /\ s \in DOMAIN conversations'
          /\ Len(conversations'[s]) >= Len(conversations[s])
          /\ SubSeq(conversations'[s], 1, Len(conversations[s])) = conversations[s]]_vars

\* a second turn was appended to a session
C9_Witness ==
    \E s \in DOMAIN conversations :
        /\ Len(conversations[s]) = 2
        /\ conversations[s][1].timestamp # conversations[s][2].timestamp

\* C10: a FixResult computed from a ledger has successful_fixes + failed_fixes =
\* total_fixes, total_fixes the number of actions in the ledger and successful_fixes
\* the number of them whose success is true; for the empty ledger the three counts
\* are 0 and requires_validation is false.
C10_FixResultCounts ==
    last.call = "get_fix_result"
        => LET r == last.out.val
               fixes == heap[fixes_applied[last.agent]]
           IN  /\ r.successful_fixes + r.failed_fixes = r.total_fixes
               /\ r.total_fixes = Len(fixes)
               /\ r.successful_fixes
                     = Cardinality({i \in 1..Len(fixes) : fixes[i].success})
               /\ fixes = <<>> => /\ r.total_fixes = 0
                                  /\ r.successful_fixes = 0
                                  /\ r.failed_fixes = 0
                                  /\ r.requires_validation = FALSE

\* a FixResult of a ledger that holds a successful and a failed action
C10_Witness ==
    /\ last.call = "get_fix_result"
    /\ last.out.val.total_fixes >= 2
    /\ last.out.val.successful_fixes >= 1
    /\ last.out.val.failed_fixes >= 1

\* C11: taking the snapshot clears the ledger: when get_fix_result is called twice
\* in a row on an agent whose ledger holds at least one action, with no append in
\* between, the first call returns a non-empty FixResult and the second an empty one.
C11_SnapshotClears ==
    [][(/\ last.call = "get_fix_result"
        /\ last.out.val.total_fixes > 0
        /\ last'.call = "get_fix_result"
        /\ last'.agent = last.agent
        /\ now' = now + 1)
          => last'.out.val.total_fixes = 0]_vars

\* the fix actions of the FixResult that the last handler call reported
Reported == heap[last.out.val.fixes_applied]

\* C12: when two sessions are handled at once by the handlers of one orchestrator,
\* the FixResult reported for one session contains no FixAction that was appended
\* while the other session was handled.
C12_NoCrossSessionFixes ==
    last.call = "handler"
        => \A i \in 1..Len(Reported) :
              \A t \in Threads \ {last.thread} :
                  Reported[i].timestamp \notin threads[t].mine

\* the fix_result of the last orchestrate_conversation call, if it reported one
HasFixResult ==
    /\ Orchestrated
    /\ Ending(last.out) = "turn"
    /\ last.out.val.fix_result # None

\* C13: fixes do not leak across requests handled one after another: the fix_result
\* reported for a request holds only fix actions appended while that request was
\* handled (they carry the instant of that request), none of an earlier request.
C13_NoLeakAcrossRequests ==
    HasFixResult
        => LET fixes == heap[last.out.val.fix_result.fixes_applied]
           IN  /\ last.out.val.fix_result.total_fixes = Len(fixes)
               /\ \A i \in 1..Len(fixes) : fixes[i].timestamp = IsoFormat(now - 1)

\* a request reported its own two fixes from a ledger that held the fixes of an
\* earlier request when it started
C13_Witness ==
    /\ HasFixResult
    /\ last.out.val.agent_used = "troubleshooting_agent"
    /\ last.held["troubleshooting_agent"] = 2
    /\ last.out.val.fix_result.total_fixes = 2

Classified == last.call = "classify_with_context"

IsClarification(out) == out.ok /\ Get(out.val, "needs_clarification", FALSE)

\* the classification that the model's reply gives for the request of the last call
ModelClassification == ClassifyWithHistory(last.text, <<>>, last.reply).val

\* C14: for a session without pending clarification, classify_with_context returns a
\* clarification if and only if the classification's confidence is low, or the
\* request has fewer than 4 words, or its lower-cased text contains one of help,
\* maybe, could, might, not sure.
C14_ClarificationRule ==
    (Classified /\ ~last.had_pending /\ last.reply.ok)
        => (IsClarification(last.out)
              <=> \/ Get(ModelClassification, "confidence", "high") = "low"
                  \/ WordCount(last.user_request) < 4
                  \/ AnyInLower(AmbiguousKeywords, last.user_request))

\* what the except branch of _classify_with_history gives for a text
FallbackFor(text) ==
    [intent_category |-> IF \E k \in FallbackKeywords : Contains(Lower(text), k)
                         THEN "TROUBLESHOOTING" ELSE "EXECUTION",
     confidence |-> "medium", aws_service |-> "unknown"]

\* C15: when the model's reply cannot be parsed as structured output, the
\* classification is the keyword fallback on the classified text: TROUBLESHOOTING if
\* its lower-cased text contains one of fail, error, issue, problem, why, debug,
\* troubleshoot, EXECUTION otherwise, with confidence medium and aws_service unknown.
\* A resolved call returns it; a call that asks for clarification stores its
\* category as suggested_agent.
C15_KeywordFallback ==
    (Classified /\ Capability(last.reply) = "unparseable")
        => IF IsClarification(last.out)
           THEN /\ ~last.had_pending
                /\ Lookup(pending_clarifications, last.session_id).suggested_agent
                      = FallbackFor(last.text).intent_category
           ELSE last.out.ok => last.out.val = FallbackFor(last.text)

\* an answer without keyword was merged with a pending request that has one, the
\* reply did not parse, and the fallback gave TROUBLESHOOTING
C15_Witness ==
    /\ Classified
    /\ Capability(last.reply) = "unparseable"
    /\ last.had_pending
    /\ last.user_request = ReqList
    /\ last.out.ok
    /\ last.out.val.intent_category = "TROUBLESHOOTING"

\* C16: a pending clarification of a session is consumed by the next
\* classify_with_context call for that session and by no other call: that call
\* classifies original_request, a space, then the new request, and deletes the
\* entry, also when the classification raises; any other call leaves the entry as
\* it is.
C16_ConsumedByNextCall ==
    [][\A s \in Sessions :
          (PendingOf(s) # {} /\ now' = now + 1)
             => IF last'.call = "classify_with_context" /\ last'.session_id = s
                THEN /\ PendingOf(s)' = {}
                     /\ last'.had_pending
                     /\ last'.text = Lookup(pending_clarifications, s).original_request
                                        \o <<" ">> \o last'.user_request
                ELSE PendingOf(s)' = PendingOf(s)]_vars

\* the call that consumed a pending clarification raised
C16_Witness ==
    /\ Classified
    /\ last.had_pending
    /\ ~last.out.ok
    /\ last.text = last.entry.original_request \o <<" ">> \o last.user_request
    /\ PendingOf(last.session_id) = {}

\* C17: when two requests for one session run at once, access to the session's
\* conversation state is serialized: neither request fails with a KeyError because
\* the other one already deleted the pending clarification, and the session never
\* has more than one pending clarification.
C17_SerializedSessionAccess ==
    /\ \A s \in Sessions : Cardinality(PendingOf(s)) <= 1
    /\ last.call = "classify_with_context in a thread"
          => ~(~last.out.ok /\ last.out.exc = MsgKeyErrorSession(last.session_id))

\* C18: conversation state is partitioned by session_id: a call made for one session
\* leaves the turns and the pending clarification of every other session unchanged.
C18_SessionPartition ==
    [][\A s \in Sessions :
          (now' = now + 1 /\ last'.session_id # s)
             => /\ Turns(s)' = Turns(s)
                /\ PendingOf(s)' = PendingOf(s)]_vars

\* a request of session A recorded a turn while session B had a turn of its own
C18_Witness ==
    /\ Orchestrated
    /\ last.session_id = "A"
    /\ Ending(last.out) = "turn"
    /\ Len(Turns("A")) = 1
    /\ Len(Turns("B")) = 1
    /\ Turns("B")[1].timestamp = IsoFormat(0)

\* C19: the entry point handles each request in the session its payload names (the
\* default session when it names none) and keeps the session's state between
\* invocations: an invocation that follows a clarification reply for its session
\* finds the pending clarification, and an invocation's classification context
\* holds the turns that earlier invocations recorded for its session.
C19_EntryKeepsSessions ==
    last.call = "invoke"
        => /\ last.session_id = Get(last.payload, "session_id", "default")
           /\ last.previous = "clarification" => last.had_pending
           /\ Len(last.history) = IF last.recorded < LastN THEN last.recorded ELSE LastN

\* C20: extraction of the response text never raises, for a direct result and for a
\* dict with a result key alike, and when the text cannot be pulled out of the
\* handler's result the extracted response is the string rendering of the raw result.
C20_ExtractionRendersRaw ==
    (Orchestrated /\ "ok" \in DOMAIN last.attempt /\ last.attempt.ok)
        => /\ Ending(last.out) = "turn"
           /\ ExtractionRaised => last.out.val.response = Str(last.attempt.val)

Searched == last.call = "tool_search"

\* the response that tool_search read, when it received one
LastResponse == IF Len(last.sent) = 2 THEN last.second ELSE last.first

\* the search failed: no response arrived, the refresh raised, or the response read
\* is not a 200 whose body lists tools in one of the two formats
SearchFailed ==
    /\ Searched
    /\ \/ ~LastResponse.ok
       \/ ("ok" \in DOMAIN last.refresh /\ ~last.refresh.ok)
       \/ LastResponse.val.status_code # 200
       \/ ~LastResponse.val.json.ok
       \/ LastResponse.val.json.val \notin GoodBodies

\* C21: a failure of capability discovery never fails the request: for a transport
\* error, a 401 with or without a refreshed token, an unexpected response shape and
\* empty or malformed content, tool_search returns the empty list and raises nothing.
C21_SearchNeverRaises ==
    Searched => /\ last.out.ok
                /\ SearchFailed => last.out.val = PyList(<<>>)

\* C30: tool_search sends at most two search requests; the second only when the
\* first was answered with status 401 and the token refresh returned a new token,
\* and it carries that token, which the agent keeps; a second 401 is not retried.
C30_RetriesAtMostOnce ==
    Searched
        => /\ Len(last.sent) \in {1, 2}
           /\ last.sent[1].authorization = last.token
           /\ Len(last.sent) = 2
                 => /\ last.first.ok
                    /\ last.first.val.status_code = 401
                    /\ last.refresh.ok
                    /\ "token" \in DOMAIN last.refresh.val
                    /\ last.refresh.val.token # ""
                    /\ last.sent[2].authorization = last.refresh.val
                    /\ last.sent[2].query = last.sent[1].query
                    /\ jwt_token[last.agent] = last.refresh.val

\* the request sent again with the refreshed token was answered with 401 too, and
\* the call ended there with the empty list
C30_Witness ==
    /\ Searched
    /\ last.token = Token("jwt-0")
    /\ Len(last.sent) = 2
    /\ last.sent[2].authorization = Token("jwt-1")
    /\ last.second.ok
    /\ last.second.val.status_code = 401
    /\ last.out = Return(PyList(<<>>))

\* C22: in the result of a completed turn, requires_validation equals
\* fix_result.requires_validation when a fix_result is present and is false
\* otherwise, and a FixResult's requires_validation is true iff its total_fixes
\* is greater than 0.
C22_RequiresValidation ==
    (Orchestrated /\ Ending(last.out) = "turn")
        => LET r == last.out.val
           IN  /\ r.fix_result = None => r.requires_validation = FALSE
               /\ r.fix_result # None
                     => /\ r.requires_validation = r.fix_result.requires_validation
                        /\ r.fix_result.requires_validation
                              <=> r.fix_result.total_fixes > 0

\* a completed turn whose handler appended two fix actions asks for validation
C22_Witness ==
    /\ HasFixResult
    /\ last.out.val.fix_result.total_fixes = 2
    /\ last.out.val.fix_result.requires_validation
    /\ last.out.val.requires_validation

\* C23: log_fix_action adds exactly one FixAction at the end of the calling agent's
\* ledger, leaves the earlier entries and the other agents' ledgers unchanged, and
\* returns that record, whose validation_status is pending and whose fields are
\* the arguments passed.
C23_AppendsOneAction ==
    [][(last'.call = "log_fix_action" /\ now' = now + 1)
          => LET a == last'.agent
                 fix_action == last'.out.val
             IN  /\ fixes_applied' = fixes_applied
                 /\ Ledgers'[a] = Append(Ledgers[a], fix_action)
                 /\ \A b \in Agents \ {a} : Ledgers'[b] = Ledgers[b]
                 /\ fix_action.validation_status = "pending"
                 /\ \A f \in DOMAIN last'.args : fix_action[f] = last'.args[f]
                 /\ fix_action.timestamp = IsoFormat(now)]_vars

\* an action was appended to a ledger that held two
C23_Witness ==
    /\ last.call = "log_fix_action"
    /\ Len(Ledgers[last.agent]) = 3
    /\ Ledgers[last.agent][3] = last.out.val
    /\ Ledgers[last.agent][1] # last.out.val

\* C24: every FixAction has a unique action_id: no two FixActions that
\* log_fix_action created, in one ledger or in different ones, carry the same
\* action_id.
C24_UniqueActionIds ==
    \A a, b \in Agents :
        \A i \in 1..Len(Ledgers[a]) : \A j \in 1..Len(Ledgers[b]) :
            (a # b \/ i # j) => Ledgers[a][i].action_id # Ledgers[b][j].action_id

Validated == last.call = "validate_fixes"

\* C25: when validate_fixes returns, it returns exactly one validation record per
\* FixAction passed in, in the same order, with fix_id the action's action_id,
\* resource its resource_identifier and status PENDING; for an empty list it
\* returns, with no records.
C25_OneRecordPerFix ==
    Validated
        => LET fixes == last.fixes_to_validate
           IN  /\ fixes = <<>> => last.out.ok
               /\ last.out.ok
                     => LET records == last.out.val.validation_results
                        IN  /\ Len(records) = Len(fixes)
                            /\ \A i \in 1..Len(fixes) :
                                  /\ records[i].fix_id = fixes[i].action_id
                                  /\ records[i].resource = fixes[i].resource_identifier
                                  /\ records[i].status = "PENDING"

\* two fixes on different resources were passed and two records returned, after a
\* search that found tools
C25_Witness ==
    /\ Validated
    /\ last.out.ok
    /\ last.fixes_to_validate = <<FixTwo, FixOne>>
    /\ last.use_semantic_search
    /\ Len(last.out.val.validation_results) = 2
    /\ last.out.val.validation_results[1].resource = "bucket-2"
    /\ last.out.val.tools_info.tools_count = 1

\* C26: a FixResult stays consistent with the actions it lists after it has been
\* returned: when log_fix_action or clear_fixes is called on the same agent after
\* get_fix_result returned it, its total_fixes still equals the number of entries
\* of its fixes_applied, and successful_fixes + failed_fixes equals that number.
C26_FixResultStaysConsistent ==
    [][(/\ last.call = "get_fix_result"
        /\ last'.call \in {"log_fix_action", "clear_fixes"}
        /\ last'.agent = last.agent
        /\ now' = now + 1
        /\ last.out.val.fixes_applied \in DOMAIN heap')
          => LET r == last.out.val
                 listed == Len(heap'[r.fixes_applied])
             IN  /\ r.total_fixes = listed
                 /\ r.successful_fixes + r.failed_fixes = listed]_vars

\* C27: on the turn that resolves a pending clarification, the merged text (original
\* request, a space, the answer) is what is classified and nothing else: every
\* handler is called with the answer text of the current request alone, and the turn
\* recorded has that answer as user_message, so that the original request is not
\* recorded in the session's turns.
C27_MergedTextOnlyClassified ==
    [][(/\ last'.call = "orchestrate_conversation"
        /\ now' = now + 1
        /\ HasKey(pending_clarifications, last'.session_id))
          => LET s == last'.session_id
                 answer == last'.user_request
                 merged == Lookup(pending_clarifications, s).original_request
                               \o <<" ">> \o answer
                 before == IF s \in DOMAIN conversations THEN Len(conversations[s]) ELSE 0
             IN  /\ last'.text = merged
                 /\ \A i \in 1..Len(last'.handled) : last'.handled[i] = answer
                 /\ Ending(last'.out) = "turn"
                       => /\ Len(conversations'[s]) = before + 1
                          /\ conversations'[s][before + 1].user_message = answer
                 /\ s \in DOMAIN conversations'
                       => \A i \in 1..Len(conversations'[s]) :
                             conversations'[s][i].user_message # merged]_vars

\* the answer to a clarification of the request "help" completed a turn that
\* records the answer, while the text classified was the merged one
C27_Witness ==
    /\ Orchestrated
    /\ last.had_pending
    /\ Ending(last.out) = "turn"
    /\ last.user_request = ReqList
    /\ last.text = ReqHelp \o <<" ">> \o ReqList
    /\ last.handled = <<ReqList>>
    /\ Turns(last.session_id)[Len(Turns(last.session_id))].user_message = ReqList

\* C28: a turn that ends in the error result changes no recorded conversation: it
\* appends no ConversationTurn and removes none, so every session's turns after an
\* errored orchestrate_conversation call are the turns before it.
C28_ErrorKeepsConversations ==
    [][(/\ last'.call = "orchestrate_conversation"
        /\ now' = now + 1
        /\ Ending(last'.out) = "error")
          => conversations' = conversations]_vars

\* a request ended in the error result in a session that had a recorded turn
C28_Witness ==
    /\ Orchestrated
    /\ Ending(last.out) = "error"
    /\ last.dispatched # <<>>
    /\ Len(Turns(last.session_id)) = 1
    /\ Turns(last.session_id)[1].timestamp = IsoFormat(0)

\* C29: when an EXECUTION turn falls back to the documentation handler because
\* tools_missing is true, the turn's result keeps the execution handler's
\* tools_info, carries no fix_result and has requires_validation=false, even when
\* the execution handler appended FixActions to its ledger during the turn.
C29_FallbackKeepsToolsInfo ==
    ToolsMissingSeen
        => /\ last.out.ok
           /\ "tools_info" \in DOMAIN last.out.val
           /\ last.out.val.tools_info = last.attempt.val.tools_info
           /\ "fix_result" \in DOMAIN last.out.val
           /\ last.out.val.fix_result = None
           /\ "requires_validation" \in DOMAIN last.out.val
           /\ last.out.val.requires_validation = FALSE

====
